---------------------------- MODULE Spec2Model ----------------------------
(***************************************************************************)
(* The display-mode schedulers of the two P10 LED panel sketches:          *)
(*   src/src/main.cpp         the Modbus RTU ("bus") variant               *)
(*   src/src/main_simple.cpp  the standalone variant                       *)
(* One loop() iteration is one action.  millis() is the variable clock,    *)
(* an unsigned counter of ClockBits bits; every delay() advances it.       *)
(***************************************************************************)
EXTENDS Integers, Sequences, FiniteSets, TLC

VARIABLES
    variant,            \* "bus" | "simple" | "time": which sketch runs
    pc,                 \* "boot" before setup(), "loop" afterwards
    clock,              \* what millis() returns at the next read
    ticks,              \* loop() iterations run so far
    bodyMs,             \* ms one loop() iteration computes, beyond its delay() calls
    \* ---- main.cpp globals
    regs,               \* mb.Hreg(0..3), unsigned 16 bit each
    displayMode, scrollSpeed, scrollX, lastScrollTime, priceValue, timeValue,
    \* ---- main_simple.cpp globals
    isScrolling, lastUpdate, textChangeTimer, scrollPosition, textMode,
    currentStaticIndex, cycleCount,
    \* ---- what the last step did
    screen,             \* the dmd commands it issued, in order
    slept,              \* the milliseconds it spent inside delay()
    ev,                 \* the branches it took
    \* ---- history (not program state)
    scrollAge,          \* true ms since lastScrollTime / lastUpdate was stamped
    dwellAge,           \* true ms since textChangeTimer was stamped
    entered,            \* bus: mode 1 was entered and has not rendered since
    modeAge,            \* simple: true ms since textMode last changed, -1 if never
    modeGap,            \* simple: <<modeAge, dwell boundaries, textMode>> before the latest change
    dwellsInMode,       \* simple: dwell boundaries since textMode last changed
    lastShown,          \* simple: <<previous, latest>> index drawn by showStaticText, -1: none
    rendersInVisit,     \* simple: draws of the active mode since textMode last changed
    leftAt,             \* simple: <<scrollPosition>> when textMode last left 1, <<>> if never
    seconds             \* time: the value of millis() / 1000 handed to showTime

vars == <<variant, pc, clock, ticks, bodyMs, regs, displayMode, scrollSpeed, scrollX,
          lastScrollTime, priceValue, timeValue, isScrolling, lastUpdate,
          textChangeTimer, scrollPosition, textMode, currentStaticIndex,
          cycleCount, screen, slept, ev, scrollAge, dwellAge, entered,
          modeAge, modeGap, dwellsInMode, lastShown, rendersInVisit, leftAt,
          seconds>>

busVars == <<regs, displayMode, scrollSpeed, scrollX, lastScrollTime,
             priceValue, timeValue, entered>>

simpleVars == <<isScrolling, lastUpdate, textChangeTimer, scrollPosition,
                textMode, currentStaticIndex, cycleCount, dwellAge, modeAge,
                modeGap, dwellsInMode, lastShown, rendersInVisit, leftAt>>

-----------------------------------------------------------------------------
(* Bounds of the model *)

ClockBits == 16         \* width of the millisecond counter in the model
MaxBodyMs == 1          \* most ms of computation per loop() iteration
MaxBusTicks == 4        \* bus: loop() iterations explored per run
MaxWrites == 1          \* bus: register writes by the master per run
MaxSimpleTicks == 6650  \* simple: loop() iterations explored per run

(* Program constants *)

TEXT_POS_X == 2
TEXT_POS_Y == 4
BusPanelWidth == 32
GlyphWidth == 6
ScrollSpeedMin == 50
ScrollSpeedMax == 500
TickDelay == 10
ErrorDelay == 1000
DwellMs == 3000
ScrollUpdateMs == 100
CyclesPerMode == 5
ModeCount == 3
staticTextCount == 6
SimpleScrollStep == 2
SetupDelay == 2000
DISPLAYS_WIDE == 2
DISPLAYS_HIGH == 1
PanelPixelsWide == 32
PanelPixelsHigh == 16
FontHeight == 7

welcomeText == "Welcome"
scrollText == "*** PlatformIO ESP8266 P10 LED Panel Projesi *** "
staticTexts == <<"MERHABA", "DUNYA!", "ESP8266", "P10 LED", "PANEL", "PROJESI">>

-----------------------------------------------------------------------------
(* Arithmetic of the target *)

ClockMod == 2 ^ ClockBits

Elapsed_Absolute(now, last) == IF now >= last THEN now - last ELSE 0

\* now - last on unsigned long
Elapsed(now, last) == (now - last) % ClockMod

\* millis() after ms more milliseconds
ClockAfter(now, ms) == (now + ms) % ClockMod

\* a true age, kept exact below ClockMod and saturated there
AgeAfter(age, ms) == IF age + ms >= ClockMod THEN ClockMod ELSE age + ms

ToInt16_Unsigned(r) == r

\* (int16_t) of a 16 bit register
ToInt16(r) == IF r < 32768 THEN r ELSE r - 65536

\* int / int of C++ (truncation towards zero)
CDiv(a, b) == IF a >= 0 THEN a \div b ELSE -((-a) \div b)

Digit(d) ==
    CASE d = 0 -> "0" [] d = 1 -> "1" [] d = 2 -> "2" [] d = 3 -> "3"
      [] d = 4 -> "4" [] d = 5 -> "5" [] d = 6 -> "6" [] d = 7 -> "7"
      [] d = 8 -> "8" [] d = 9 -> "9"

RECURSIVE NatStr(_)
NatStr(n) == IF n < 10 THEN Digit(n) ELSE NatStr(n \div 10) \o Digit(n % 10)

\* String(int)
IntStr(n) == IF n < 0 THEN "-" \o NatStr(-n) ELSE NatStr(n)

(* dmd commands *)

ClearCmd == [op |-> "clear", x |-> 0, y |-> 0, text |-> ""]
DrawCmd(x, y, t) == [op |-> "draw", x |-> x, y |-> y, text |-> t]

ScrollStep_WrapEarly(pos, step, textWidth, width) ==
    IF pos - step <= -textWidth THEN width ELSE pos - step

ScrollStep_NoWrap(pos, step, textWidth, width) == pos - step

\* scrollX-- / scrollPosition -= step, then the wrap test
ScrollStep(pos, step, textWidth, width) ==
    IF pos - step < -textWidth THEN width ELSE pos - step

-----------------------------------------------------------------------------
(* main.cpp *)

\* the range test on register 1
SpeedInRange(v) == v >= ScrollSpeedMin /\ v <= ScrollSpeedMax

updateDisplayFromModbus_ModeOnly(r, speed, x) == <<r[0], speed, 0, 0, x>>

\* updateDisplayFromModbus(): <<displayMode, scrollSpeed, priceValue, timeValue, scrollX>>
updateDisplayFromModbus(r, speed, x) ==
    <<r[0],
      IF SpeedInRange(r[1]) THEN r[1] ELSE speed,
      ToInt16(r[2]),
      ToInt16(r[3]),
      IF r[0] = 1 THEN BusPanelWidth ELSE x>>

\* the register values setup() stores
SetupRegs == [i \in 0..3 |-> CASE i = 0 -> 1 [] i = 1 -> 100 [] i = 2 -> 1500 [] i = 3 -> 60]

\* the values a master writes in the runs explored
WriteValues(i) ==
    CASE i = 0 -> {0, 1, 2, 3, 4, 65535}
      [] i = 1 -> {30, 50, 100, 500, 600}
      [] i = 2 -> {1500, 32767, 32768, 65535}
      [] i = 3 -> {60, 32768}

\* the register files explored: at most MaxWrites registers off their setup() value
Explored(r) == Cardinality({i \in 0..3 : r[i] # SetupRegs[i]}) <= MaxWrites

\* mb.task(): the slave serves one write request of the master, or none
mbTask(r) ==
    {r} \cup {w \in UNION {{[r EXCEPT ![i] = v] : v \in WriteValues(i)} : i \in 0..3} :
                 Explored(w)}

ModeErrorCmds_Blank == <<ClearCmd>>

\* loop(), default branch: the commands drawn for an unknown mode
ModeErrorCmds == <<ClearCmd, DrawCmd(2, 4, "MODE ERROR")>>

\* loop(), lines 137-140: the parameters of this iteration
ReadMode(r) == r[0]
ReadSpeed(r) == r[1]
ReadPrice_Cached(r) == IF displayMode = 2 THEN ToInt16(r[2]) ELSE priceValue
ReadPrice(r) == ToInt16(r[2])
ReadTime(r) == ToInt16(r[3])

ScrollDue_Always(now, last, speed) == TRUE

\* loop(), case 1: the throttle test
ScrollDue(now, last, speed) == Elapsed(now, last) >= speed

\* loop(), case 1: scrollX after scrollX-- and the wrap test
BusScrollStep(x) == ScrollStep(x, 1, Len(welcomeText) * GlyphWidth, BusPanelWidth)

\* loop(): the delay() calls of one iteration in mode m
BusSleep(m) == (IF m \in 0..3 THEN 0 ELSE ErrorDelay) + TickDelay

\* loop(): the dmd commands of one iteration
BusCmds(m, due, x, price, time) ==
    CASE m = 0 -> <<ClearCmd>>
      [] m = 1 -> IF due THEN <<ClearCmd, DrawCmd(x, TEXT_POS_Y, welcomeText)>> ELSE <<>>
      [] m = 2 -> <<ClearCmd, DrawCmd(TEXT_POS_X, TEXT_POS_Y, IntStr(price) \o " TL")>>
      [] m = 3 -> <<ClearCmd, DrawCmd(TEXT_POS_X, TEXT_POS_Y, IntStr(time) \o " sn")>>
      [] OTHER -> ModeErrorCmds

SimpleIdle == UNCHANGED simpleVars

\* setup() of main.cpp
setupBus ==
    /\ variant = "bus" /\ pc = "boot"
    /\ LET u == updateDisplayFromModbus(SetupRegs, scrollSpeed, scrollX) IN
        /\ regs' = SetupRegs
        /\ displayMode' = u[1] /\ scrollSpeed' = u[2] /\ priceValue' = u[3]
        /\ timeValue' = u[4] /\ scrollX' = u[5]
        /\ clock' = ClockAfter(clock, bodyMs)
        /\ scrollAge' = AgeAfter(scrollAge, bodyMs)
    /\ pc' = "loop"
    /\ screen' = <<ClearCmd>> /\ slept' = 0 /\ ev' = {"setup"}
    /\ UNCHANGED <<variant, ticks, bodyMs, lastScrollTime, entered, seconds>>
    /\ SimpleIdle

\* loop() of main.cpp; w: the registers after mb.task()
loopBus ==
    /\ variant = "bus" /\ pc = "loop" /\ ticks < MaxBusTicks
    /\ \E w \in mbTask(regs) :
        LET now == clock
            m == ReadMode(w)
            speed == ReadSpeed(w)
            due == ScrollDue(now, lastScrollTime, speed)
            adv == m = 1 /\ due
            first == adv /\ (entered \/ displayMode # 1)
        IN
        /\ regs' = w
        /\ displayMode' = m /\ scrollSpeed' = speed
        /\ priceValue' = ReadPrice(w) /\ timeValue' = ReadTime(w)
        /\ screen' = BusCmds(m, due, scrollX, ReadPrice(w), ReadTime(w))
        /\ scrollX' = IF adv THEN BusScrollStep(scrollX) ELSE scrollX
        /\ lastScrollTime' = IF adv THEN ClockAfter(now, bodyMs) ELSE lastScrollTime
        /\ slept' = BusSleep(m)
        /\ clock' = ClockAfter(now, bodyMs + BusSleep(m))
        /\ scrollAge' = IF adv THEN BusSleep(m) ELSE AgeAfter(scrollAge, bodyMs + BusSleep(m))
        /\ entered' = IF adv THEN FALSE
                      ELSE IF m = 1 THEN (entered \/ displayMode # 1) ELSE FALSE
        /\ ev' = {"tick"} \cup (IF adv THEN {"advance"} ELSE {})
                          \cup (IF first THEN {"first"} ELSE {})
    /\ ticks' = ticks + 1
    /\ UNCHANGED <<variant, pc, bodyMs, seconds>>
    /\ SimpleIdle

-----------------------------------------------------------------------------
(* main_simple.cpp *)

\* dmd.width(), dmd.height()
DmdWidth == PanelPixelsWide * DISPLAYS_WIDE
DmdHeight == PanelPixelsHigh * DISPLAYS_HIGH

NextStaticIndex_Unwrapped(i) == IF i + 1 >= staticTextCount THEN i ELSE i + 1

\* showStaticText(): the cursor after the draw
NextStaticIndex(i) == (i + 1) % staticTextCount

\* showStaticText(): the commands for cursor i
showStaticText(i) ==
    LET text == staticTexts[i + 1]
        textWidth == Len(text) * GlyphWidth
        x0 == CDiv(DmdWidth - textWidth, 2)
        y0 == CDiv(DmdHeight - FontHeight, 2)
    IN <<ClearCmd, DrawCmd(IF x0 < 0 THEN 0 ELSE x0, IF y0 < 0 THEN 0 ELSE y0, text)>>

Pad2_Off(n) == IntStr(n)

\* showTime(): minutes and secs take a leading "0" below 10
Pad2(n) == (IF n < 10 THEN "0" ELSE "") \o IntStr(n)

\* showTime(): timeStr for seconds = millis() / 1000
TimeStr(s) ==
    LET hours == (s \div 3600) % 24
        minutes == (s \div 60) % 60
        secs == s % 60
    IN IntStr(hours) \o ":" \o Pad2(minutes) \o ":" \o Pad2(secs)

\* showTime(): the commands
showTime(s) ==
    LET timeStr == TimeStr(s)
    IN <<ClearCmd, DrawCmd(CDiv(DmdWidth - Len(timeStr) * GlyphWidth, 2), 4, timeStr)>>

startScrolling_Resume(pos) == pos

\* startScrolling(): scrollPosition after the call
startScrolling(pos) == DmdWidth

\* updateScrolling(): the commands at position pos
updateScrollingCmds(pos) == <<ClearCmd, DrawCmd(pos, 4, scrollText)>>

\* updateScrolling(): scrollPosition after the step and the wrap test
SimpleScrollStepped(pos) ==
    ScrollStep(pos, SimpleScrollStep, Len(scrollText) * GlyphWidth, DmdWidth)

DwellDue_Never(now, timer) == FALSE

\* loop(): the dwell test and the scroll test
DwellDue(now, timer) == Elapsed(now, timer) >= DwellMs
UpdateDue(now, last) == Elapsed(now, last) >= ScrollUpdateMs

NextTextMode_Unwrapped(m) == m + 1

\* loop(): textMode after a mode change
NextTextMode(m) == (m + 1) % ModeCount

StopScrolling_Kept(scrolling) == scrolling

\* loop(): isScrolling after a mode change
StopScrolling(scrolling) == FALSE

CycleFull_Early(c) == c >= CyclesPerMode - 1

\* loop(): cycleCount reached the number of cycles per mode
CycleFull(c) == c >= CyclesPerMode

BusIdle == UNCHANGED busVars

\* setup() of main_simple.cpp
setupSimple ==
    /\ variant = "simple" /\ pc = "boot"
    /\ clock' = ClockAfter(clock, SetupDelay + bodyMs)
    /\ scrollAge' = AgeAfter(scrollAge, SetupDelay + bodyMs)
    /\ dwellAge' = AgeAfter(dwellAge, SetupDelay + bodyMs)
    /\ pc' = "loop"
    /\ screen' = <<ClearCmd, DrawCmd(0, 0, "BASLIYOR...")>>
    /\ slept' = SetupDelay /\ ev' = {"setup"}
    /\ UNCHANGED <<variant, ticks, bodyMs, seconds, isScrolling, lastUpdate,
                   textChangeTimer, scrollPosition, textMode, currentStaticIndex,
                   cycleCount, modeAge, modeGap, dwellsInMode, lastShown,
                   rendersInVisit, leftAt>>
    /\ BusIdle

\* loop() of main_simple.cpp
loopSimple ==
    /\ variant = "simple" /\ pc = "loop" /\ ticks < MaxSimpleTicks
    /\ LET currentTime == clock
            dwell == DwellDue(currentTime, textChangeTimer)
            static == dwell /\ textMode = 0
            start == dwell /\ textMode = 1 /\ ~isScrolling
            time == dwell /\ textMode = 2
            cycle1 == IF dwell THEN cycleCount + 1 ELSE cycleCount
            change == dwell /\ CycleFull(cycle1)
            \* after the dwell block
            scrolling1 == IF change THEN StopScrolling(isScrolling \/ start)
                          ELSE (isScrolling \/ start)
            position1 == IF change THEN 0
                         ELSE IF start THEN startScrolling(scrollPosition)
                         ELSE scrollPosition
            update == scrolling1 /\ UpdateDue(currentTime, lastUpdate)
            dur == bodyMs + TickDelay
        IN
        /\ textChangeTimer' = IF dwell THEN currentTime ELSE textChangeTimer
        /\ currentStaticIndex' = IF static THEN NextStaticIndex(currentStaticIndex)
                                 ELSE currentStaticIndex
        /\ cycleCount' = IF change THEN 0 ELSE cycle1
        /\ textMode' = IF change THEN NextTextMode(textMode) ELSE textMode
        /\ isScrolling' = scrolling1
        /\ lastUpdate' = IF update THEN currentTime ELSE lastUpdate
        /\ scrollPosition' = IF update THEN SimpleScrollStepped(position1) ELSE position1
        /\ screen' = (IF static THEN showStaticText(currentStaticIndex)
                      ELSE IF start THEN <<ClearCmd>>
                      ELSE IF time THEN showTime(currentTime \div 1000)
                      ELSE <<>>)
                     \o (IF update THEN updateScrollingCmds(position1) ELSE <<>>)
        /\ slept' = TickDelay
        /\ clock' = ClockAfter(currentTime, dur)
        /\ dwellAge' = IF dwell THEN dur ELSE AgeAfter(dwellAge, dur)
        /\ scrollAge' = IF update THEN dur ELSE AgeAfter(scrollAge, dur)
        /\ modeAge' = IF change THEN dur
                      ELSE IF modeAge = -1 THEN -1 ELSE modeAge + dur
        /\ modeGap' = IF change THEN <<modeAge, dwellsInMode + 1, textMode>> ELSE modeGap
        /\ dwellsInMode' = IF change THEN 0
                           ELSE IF dwell THEN dwellsInMode + 1 ELSE dwellsInMode
        /\ lastShown' = IF static THEN <<lastShown[2], currentStaticIndex>> ELSE lastShown
        /\ rendersInVisit' = IF change THEN 0
                             ELSE IF static \/ time \/ update THEN rendersInVisit + 1
                             ELSE rendersInVisit
        /\ leftAt' = IF change /\ textMode = 1 THEN <<scrollPosition>> ELSE leftAt
        /\ ev' = {"tick"} \cup (IF dwell THEN {"dwell"} ELSE {})
                          \cup (IF static THEN {"static"} ELSE {})
                          \cup (IF start THEN {"start"} ELSE {})
                          \cup (IF time THEN {"time"} ELSE {})
                          \cup (IF change THEN {"change"} ELSE {})
                          \cup (IF update THEN {"update"} ELSE {})
    /\ ticks' = ticks + 1
    /\ UNCHANGED <<variant, pc, bodyMs, seconds>>
    /\ BusIdle

-----------------------------------------------------------------------------
(* showTime() on its own: seconds is drawn from SecondsExplored *)

SecondsExplored ==
    {h * 3600 + m * 60 + s : h \in {0, 1, 9, 10, 23, 24, 25, 47}, m \in {0, 1, 9, 10, 59},
                             s \in {0, 1, 9, 10, 59}}

showTimeStep ==
    /\ variant = "time" /\ pc = "loop" /\ ticks = 0
    /\ screen' = showTime(seconds)
    /\ ev' = {"time"}
    /\ ticks' = ticks + 1
    /\ UNCHANGED <<variant, pc, clock, bodyMs, slept, seconds, scrollAge>>
    /\ BusIdle /\ SimpleIdle

-----------------------------------------------------------------------------
(* Initial states *)

\* the globals of main.cpp as constructed
BusGlobals ==
    /\ regs = [i \in 0..3 |-> 0]
    /\ displayMode = 1 /\ scrollSpeed = 100 /\ scrollX = 32
    /\ lastScrollTime = 0 /\ priceValue = 0 /\ timeValue = 0
    /\ entered = FALSE

\* the globals of main_simple.cpp as constructed
SimpleGlobals ==
    /\ isScrolling = FALSE /\ lastUpdate = 0 /\ textChangeTimer = 0
    /\ scrollPosition = 0 /\ textMode = 0 /\ currentStaticIndex = 0
    /\ cycleCount = 0
    /\ dwellAge = 0 /\ modeAge = -1 /\ modeGap = <<-1, -1, -1>> /\ dwellsInMode = 0
    /\ lastShown = <<-1, -1>>
    /\ rendersInVisit = 0 /\ leftAt = <<>>

Quiet == screen = <<>> /\ slept = 0 /\ ev = {} /\ ticks = 0

\* power-on of the bus variant
InitBusBoot ==
    /\ variant = "bus" /\ pc = "boot" /\ clock = 0 /\ scrollAge = 0
    /\ bodyMs \in 0..MaxBodyMs /\ seconds = 0
    /\ BusGlobals /\ SimpleGlobals /\ Quiet

\* the bus variant between two iterations of a longer run: the master has
\* written nothing but the mode (Off or Welcome), scrollX is anywhere on its
\* way from 32 down to -42, the clock is anywhere, and the last advance
\* is scrollAge ms ago (less than one interval and one iteration in Welcome)
ScrollXExplored == {32, 5, -41, -42}
ClockExplored == {0, ClockMod - 95, ClockMod - 5}
AgeExplored == {0, 95, 105, 495, ClockMod - 100, ClockMod}

InitBusRunning ==
    /\ variant = "bus" /\ pc = "loop"
    /\ clock \in ClockExplored
    /\ scrollAge \in AgeExplored
    /\ regs \in {SetupRegs, [SetupRegs EXCEPT ![0] = 0]}
    /\ (regs[0] = 1 => scrollAge < SetupRegs[1] + TickDelay)
    /\ displayMode = regs[0] /\ scrollSpeed = regs[1]
    /\ priceValue = ToInt16(regs[2]) /\ timeValue = ToInt16(regs[3])
    /\ scrollX \in ScrollXExplored
    /\ lastScrollTime = (clock - scrollAge) % ClockMod
    /\ entered = FALSE
    /\ bodyMs \in 0..MaxBodyMs /\ seconds = 0
    /\ SimpleGlobals /\ Quiet

\* the bus variant one iteration before the end of a run in which the master
\* selected PriceDisplay or TimeDisplay ahead of the first iteration and has
\* stored r, any 16 bit value, in the register of that mode
InitBusRegs ==
    /\ variant = "bus" /\ pc = "loop"
    /\ ticks = MaxBusTicks - 1
    /\ clock = ticks * TickDelay /\ scrollAge = clock
    /\ \E m \in {2, 3}, r \in 0..65535 : regs = [SetupRegs EXCEPT ![0] = m, ![m] = r]
    /\ displayMode = regs[0] /\ scrollSpeed = regs[1]
    /\ priceValue = ToInt16(regs[2]) /\ timeValue = ToInt16(regs[3])
    /\ scrollX = BusPanelWidth /\ lastScrollTime = 0 /\ entered = FALSE
    /\ bodyMs = 0 /\ seconds = 0
    /\ SimpleGlobals
    /\ screen = BusCmds(regs[0], FALSE, scrollX, priceValue, timeValue)
    /\ slept = TickDelay /\ ev = {}

\* power-on of the standalone variant
InitSimple ==
    /\ variant = "simple" /\ pc = "boot" /\ clock = 0 /\ scrollAge = 0
    /\ bodyMs \in 0..MaxBodyMs /\ seconds = 0
    /\ BusGlobals /\ SimpleGlobals /\ Quiet

InitTime ==
    /\ variant = "time" /\ pc = "loop" /\ clock = 0 /\ scrollAge = 0
    /\ bodyMs = 0 /\ seconds \in SecondsExplored
    /\ BusGlobals /\ SimpleGlobals /\ Quiet

InitBus == InitBusBoot \/ InitBusRunning

Init == InitBus \/ InitSimple \/ InitTime

NextBus == setupBus \/ loopBus
NextSimple == setupSimple \/ loopSimple

Next == setupBus \/ loopBus \/ setupSimple \/ loopSimple \/ showTimeStep

Spec == Init /\ [][Next]_vars
SpecBus == InitBus /\ [][NextBus]_vars
SpecBusBoot == InitBusBoot /\ [][NextBus]_vars
SpecSimple == InitSimple /\ [][NextSimple]_vars
SpecTime == InitTime /\ [][showTimeStep]_vars
SpecBusRegs == InitBusRegs /\ [][loopBus]_vars

\* the standalone variant when the clock keeps advancing and loop() keeps
\* being called: setup() and every explored iteration do run
SpecSimpleFair == InitSimple /\ [][NextSimple]_vars /\ WF_vars(NextSimple)

-----------------------------------------------------------------------------
(* Properties *)

BusTicked == variant = "bus" /\ "tick" \in ev
SimpleTicked == variant = "simple" /\ "tick" \in ev

\* C1: bus variant: an out-of-range write to holding register 1 leaves
\* scrollSpeed at its stored value, so scrollSpeed lies in [50,500] whenever
\* the scroll-advance comparison of mode 1 is evaluated.
C1_ScrollSpeedInRange ==
    (BusTicked /\ displayMode = 1) => (scrollSpeed >= 50 /\ scrollSpeed <= 500)

\* C2: bus variant: the first render after the mode register changed from
\* another mode to 1 draws the text at the right edge, x = 32.
C2_ReentryDrawsAtRightEdge ==
    (BusTicked /\ "first" \in ev) => screen[Len(screen)].x = 32

\* C3: bus variant: an iteration with a mode register outside {0,1,2,3} clears
\* the panel, draws exactly "MODE ERROR", and leaves scrollX and
\* lastScrollTime as they were.
C3_UnknownModeFallback ==
    [][(variant = "bus" /\ pc = "loop" /\ ticks' = ticks + 1 /\ displayMode' \notin 0..3)
         => /\ screen' = <<ClearCmd, DrawCmd(2, 4, "MODE ERROR")>>
            /\ scrollX' = scrollX
            /\ lastScrollTime' = lastScrollTime]_vars

C3_Witness ==
    /\ BusTicked /\ displayMode = 65535 /\ scrollX = -41
    /\ screen = <<ClearCmd, DrawCmd(2, 4, "MODE ERROR")>>

\* C4: no iteration blocks: the only delay() of an iteration, in every mode
\* and for an unknown mode too, is the fixed 10 ms at its end.
C4_OnlyTickDelay ==
    "tick" \in ev => slept = 10

\* C5: both variants: an advance takes the position drawn down by exactly the
\* step (bus 1, standalone 2), except that the advance which would take it
\* below -textPixelWidth (bus -42, standalone -294) sets it to +panelWidth
\* (bus 32, standalone 64).
C5_Advanced(drawn, step, textPixelWidth, panelWidth) ==
    IF drawn - step >= -textPixelWidth THEN drawn - step ELSE panelWidth

C5_ScrollAdvance ==
    /\ (BusTicked /\ "advance" \in ev)
         => scrollX = C5_Advanced(screen[Len(screen)].x, 1, 7 * 6, 32)
    /\ (SimpleTicked /\ "update" \in ev)
         => scrollPosition = C5_Advanced(screen[Len(screen)].x, 2, 49 * 6, 64)

C5_Witness ==
    BusTicked /\ "advance" \in ev /\ screen[Len(screen)].x = -42 /\ scrollX = 32

\* C6: standalone variant: textMode advances 0 -> 1 -> 2 -> 0 exactly once per
\* 5 dwell boundaries, and consecutive changes of textMode are exactly
\* 5 * 3000 = 15000 ms apart.
C6_ModeChangesExactly15000Apart ==
    /\ (modeGap[2] # -1 => modeGap[2] = 5)
    /\ (modeGap[1] # -1 => modeGap[1] = 15000)

\* C6, amended: textMode advances 0 -> 1 -> 2 -> 0 exactly once per 5 dwell
\* boundaries; a dwell boundary comes no sooner than 3000 ms after the one
\* before, so consecutive changes of textMode are at least 15000 ms apart.
C6_ModeChangesAtLeast15000Apart ==
    [][(variant = "simple" /\ pc = "loop" /\ ticks' = ticks + 1)
         => /\ ("dwell" \in ev' => dwellAge >= 3000)
            /\ ("change" \in ev' <=> ("dwell" \in ev' /\ dwellsInMode = 4))
            /\ ("change" \in ev' => textMode' = (textMode + 1) % 3)
            /\ (("change" \in ev' /\ modeAge # -1) => modeAge >= 5 * 3000)
            /\ ("change" \notin ev' => textMode' = textMode)]_vars

C6_Witness ==
    SimpleTicked /\ "change" \in ev /\ textMode = 2 /\ modeGap = <<15015, 5, 1>>

\* C7: standalone variant: every dwell boundary of StaticRotation, and no other
\* iteration, draws the string under the cursor and moves the cursor to
\* (cursor + 1) mod 6; the strings drawn follow the list cyclically, none
\* skipped, none repeated.
C7_Texts == <<"MERHABA", "DUNYA!", "ESP8266", "P10 LED", "PANEL", "PROJESI">>

C7_RoundRobin ==
    SimpleTicked =>
        LET dispatched == IF "change" \in ev THEN modeGap[3] ELSE textMode
            prev == lastShown[1]
            shown == lastShown[2]
        IN /\ ("static" \in ev <=> ("dwell" \in ev /\ dispatched = 0))
           /\ ("static" \in ev =>
                 (/\ screen[2].text = C7_Texts[shown + 1]
                  /\ shown = (IF prev = -1 THEN 0 ELSE (prev + 1) % 6)))
           /\ currentStaticIndex = (IF shown = -1 THEN 0 ELSE (shown + 1) % 6)

C7_Witness ==
    /\ SimpleTicked /\ "static" \in ev /\ lastShown = <<5, 0>>
    /\ screen[2].text = "MERHABA" /\ currentStaticIndex = 1

\* C8: the throttle tests subtract timestamps modulo 2^w: as long as the true
\* time since the timestamp is below 2^w, the scroll advance (bus), the dwell
\* boundary and the scroll update (standalone) fire exactly in the iterations
\* where that true time has reached the interval, also when the clock has
\* wrapped since the timestamp.
C8_WrapSafeThrottle ==
    [][/\ ((variant = "bus" /\ pc = "loop" /\ ticks' = ticks + 1
              /\ displayMode' = 1 /\ scrollAge < ClockMod)
           => ("advance" \in ev' <=> scrollAge >= scrollSpeed'))
       /\ ((variant = "simple" /\ pc = "loop" /\ ticks' = ticks + 1
              /\ dwellAge < ClockMod)
           => ("dwell" \in ev' <=> dwellAge >= 3000))
       /\ ((variant = "simple" /\ pc = "loop" /\ ticks' = ticks + 1
              /\ isScrolling' /\ scrollAge < ClockMod)
           => ("update" \in ev' <=> scrollAge >= 100))]_vars

\* an update of the standalone scroll right after the clock wrapped
C8_Witness ==
    /\ SimpleTicked /\ "update" \in ev /\ lastUpdate < 100
    /\ Len(screen) = 2 /\ screen[2].x < 64

\* C9: bus variant: every iteration reads the four registers anew: after it,
\* displayMode, priceValue and timeValue are the registers' current values
\* (2 and 3 as signed 16 bit), and the text drawn in modes 2 and 3 is made
\* from them.
C9_Signed16(r) == IF r >= 32768 THEN r - 65536 ELSE r

C9_RegistersReadEveryTick ==
    BusTicked =>
        /\ displayMode = regs[0]
        /\ priceValue = C9_Signed16(regs[2])
        /\ timeValue = C9_Signed16(regs[3])
        /\ (displayMode = 2 =>
              screen = <<ClearCmd, DrawCmd(2, 4, IntStr(C9_Signed16(regs[2])) \o " TL")>>)
        /\ (displayMode = 3 =>
              screen = <<ClearCmd, DrawCmd(2, 4, IntStr(C9_Signed16(regs[3])) \o " sn")>>)

C9_Witness ==
    /\ BusTicked /\ regs[0] = 2 /\ regs[2] = 1500
    /\ screen = <<ClearCmd, DrawCmd(2, 4, "1500 TL")>>

\* C10: showTime renders hours, minutes and seconds of s, each zero-padded to
\* two digits, so that 3661 s reads "01:01:01".
C10_TwoDigits(n) == Digit(n \div 10) \o Digit(n % 10)

C10_AllFieldsPadded ==
    (variant = "time" /\ "time" \in ev) =>
        /\ screen[2].text = C10_TwoDigits((seconds \div 3600) % 24) \o ":"
                            \o C10_TwoDigits((seconds \div 60) % 60) \o ":"
                            \o C10_TwoDigits(seconds % 60)
        /\ (seconds = 3661 => screen[2].text = "01:01:01")

\* C10, amended: showTime renders H:MM:SS with hours = (s div 3600) mod 24 not
\* padded (one digit below 10, two digits from 10 to 23) and minutes and
\* seconds as exactly two digits 00..59, so that 3661 s reads "1:01:01".
C10_HoursUnpadded ==
    (variant = "time" /\ "time" \in ev) =>
        LET h == (seconds \div 3600) % 24
            hh == IF h < 10 THEN Digit(h) ELSE C10_TwoDigits(h)
            text == screen[2].text
        IN /\ h \in 0..23
           /\ text = hh \o ":" \o C10_TwoDigits((seconds \div 60) % 60) \o ":"
                        \o C10_TwoDigits(seconds % 60)
           /\ Len(text) = Len(hh) + 6
           /\ (seconds = 3661 => text = "1:01:01")

C10_Witness ==
    variant = "time" /\ "time" \in ev /\ seconds = 3661 /\ screen[2].text = "1:01:01"

\* C11: bus variant: in PriceDisplay (2) and TimeDisplay (3) every iteration,
\* throttle or not, clears the panel and draws at (2,4) the decimal number of
\* the mode's register read as signed 16 bit, then " TL" (price) or " sn"
\* (time); for every register value r in 0..65535 the number is r below 32768
\* and r - 65536 from there on.
C11_ValueDrawnSigned ==
    (BusTicked /\ displayMode \in {2, 3}) =>
        LET r == regs[displayMode]
            shown == IF r < 32768 THEN r ELSE r - 65536
            suffix == IF displayMode = 2 THEN " TL" ELSE " sn"
        IN /\ r \in 0..65535
           /\ screen = <<[op |-> "clear", x |-> 0, y |-> 0, text |-> ""],
                         [op |-> "draw", x |-> 2, y |-> 4, text |-> IntStr(shown) \o suffix]>>
           /\ "advance" \notin ev

C11_Witness ==
    /\ BusTicked /\ displayMode = 3 /\ regs[3] = 40000
    /\ screen[2] = [op |-> "draw", x |-> 2, y |-> 4, text |-> "-25536 sn"]

\* C12: after setup() and before the first iteration the state is the
\* documented default: bus variant mode 1, scroll interval 100 ms, price 1500,
\* time 60, scroll position 32; standalone variant textMode 0, cursor 0, not
\* scrolling.
C12_DefaultsAfterSetup ==
    /\ ((variant = "bus" /\ "setup" \in ev) =>
          (/\ displayMode = 1 /\ scrollSpeed = 100 /\ priceValue = 1500
           /\ timeValue = 60 /\ scrollX = 32))
    /\ ((variant = "simple" /\ "setup" \in ev) =>
          (textMode = 0 /\ currentStaticIndex = 0 /\ ~isScrolling))

C12_Witness ==
    /\ variant = "bus" /\ pc = "loop" /\ ev = {"setup"} /\ ticks = 0
    /\ regs[2] = 1500 /\ priceValue = 1500 /\ timeValue = 60

\* C13: bus variant, WelcomeScroll: an iteration advances the scroll if and
\* only if now - lastScrollTime >= scroll interval; an advancing iteration
\* draws the text at the position held before the decrement, then decrements
\* and wraps, then stamps lastScrollTime; any other iteration draws nothing and
\* leaves scrollX and lastScrollTime alone; so two consecutive advances are
\* never less than the interval apart.
C13_ThrottledAdvance ==
    [][(variant = "bus" /\ pc = "loop" /\ ticks' = ticks + 1 /\ displayMode' = 1) =>
         LET due == (clock - lastScrollTime) % (2 ^ ClockBits) >= scrollSpeed'
         IN /\ ("advance" \in ev' <=> due)
            /\ (due =>
                  (/\ screen' = <<[op |-> "clear", x |-> 0, y |-> 0, text |-> ""],
                                  [op |-> "draw", x |-> scrollX, y |-> 4, text |-> "Welcome"]>>
                   /\ scrollX' = (IF scrollX - 1 < -42 THEN 32 ELSE scrollX - 1)
                   /\ (lastScrollTime' - clock) % (2 ^ ClockBits) <= bodyMs
                   /\ scrollAge >= scrollSpeed'))
            /\ (~due =>
                  (/\ screen' = <<>>
                   /\ scrollX' = scrollX
                   /\ lastScrollTime' = lastScrollTime))]_vars

\* a throttled iteration after an advance from 5 to 4
C13_Witness ==
    /\ BusTicked /\ displayMode = 1 /\ "advance" \notin ev
    /\ screen = <<>> /\ scrollX = 4 /\ scrollAge < scrollSpeed

\* C14: standalone variant: each time textMode becomes 1 the scroll state is
\* reset, so that the first scroll render of the visit draws the text at
\* x = 64, the right edge, wherever the position stood when the previous
\* Scroll visit ended; while textMode stays 1 the position is kept from one
\* iteration to the next and, once the animation runs, only scroll advances
\* change it.
C14_ScrollVisitStartsAtRightEdge ==
    [][(variant = "simple" /\ pc = "loop" /\ ticks' = ticks + 1) =>
         /\ ((textMode # 1 /\ textMode' = 1) => (~isScrolling' /\ rendersInVisit' = 0))
         /\ (("update" \in ev' /\ rendersInVisit' = 1) =>
               (/\ textMode' = 1
                /\ screen'[Len(screen')] =
                      [op |-> "draw", x |-> 64, y |-> 4,
                       text |-> "*** PlatformIO ESP8266 P10 LED Panel Projesi *** "]
                /\ scrollPosition' = 62))
         /\ ((textMode = 1 /\ textMode' = 1 /\ isScrolling) =>
               (/\ isScrolling'
                /\ scrollPosition' = (IF "update" \in ev'
                                      THEN (IF scrollPosition - 2 < -294 THEN 64
                                            ELSE scrollPosition - 2)
                                      ELSE scrollPosition)))
         /\ ((textMode = 1 /\ textMode' = 1 /\ ~isScrolling /\ ~isScrolling') =>
               scrollPosition' = scrollPosition)]_vars

\* the first render of the second Scroll visit; the first visit ended elsewhere
C14_Witness ==
    /\ SimpleTicked /\ "update" \in ev /\ rendersInVisit = 1 /\ textMode = 1
    /\ leftAt = <<-176>>
    /\ screen[Len(screen)].x = 64 /\ scrollPosition = 62

\* C15: standalone variant: each time textMode returns to 0 the rotation
\* cursor is reset to index 0 before the first render of the visit, so every
\* StaticRotation visit starts with the first string, "MERHABA".
C15_StaticVisitStartsAtFirstString ==
    (SimpleTicked /\ "static" \in ev /\ "change" \notin ev /\ rendersInVisit = 1) =>
        (lastShown[2] = 0 /\ screen[2].text = "MERHABA")

\* C16: at every iteration boundary the scroll position lies within
\* [-textPixelWidth, +panelWidth]: bus variant -42 <= scrollX <= 32,
\* standalone variant -294 <= scrollPosition <= 64, whatever iterations, mode
\* changes and register writes came before.
C16_ScrollPositionInRange ==
    /\ (variant = "bus" => (scrollX >= -(7 * 6) /\ scrollX <= 32))
    /\ (variant = "simple" => (scrollPosition >= -(49 * 6) /\ scrollPosition <= 64))

\* an advance that ends on the wrap threshold
C16_Witness ==
    /\ BusTicked /\ "advance" \in ev /\ screen[Len(screen)].x = -41 /\ scrollX = -42

\* C17: standalone variant: at every iteration boundary textMode is in
\* {0,1,2}, currentStaticIndex is in 0..5 and cycleCount is in 0..4, so the
\* mode switch meets no unknown value and staticTexts is indexed within
\* bounds.
C17_StandaloneRanges ==
    variant = "simple" =>
        /\ textMode \in {0, 1, 2}
        /\ currentStaticIndex \in 0..5
        /\ cycleCount \in 0..4
        /\ currentStaticIndex + 1 \in DOMAIN staticTexts

\* textMode back at 0 after 2, the cursor back at 0 after 5
C17_Witness ==
    /\ SimpleTicked /\ textMode = 0 /\ modeGap[3] = 2
    /\ "static" \in ev /\ lastShown[2] = 5 /\ currentStaticIndex = 0

\* C18: standalone variant: at every iteration boundary isScrolling implies
\* textMode = 1; updateScrolling draws and advances only while textMode is 1,
\* and the iteration that leaves mode 1 stops the animation.
C18_ScrollingOnlyInScrollMode ==
    [][(variant = "simple" /\ pc = "loop" /\ ticks' = ticks + 1) =>
         /\ (isScrolling' => textMode' = 1)
         /\ ("update" \in ev' => (textMode = 1 /\ textMode' = 1))
         /\ (scrollPosition' # scrollPosition => (textMode = 1 \/ textMode' = 1))
         /\ ((textMode = 1 /\ textMode' # 1) => (~isScrolling' /\ "update" \notin ev'))]_vars

\* the iteration that leaves Scroll with the animation running
C18_Witness ==
    /\ SimpleTicked /\ "change" \in ev /\ modeGap[3] = 1 /\ textMode = 2
    /\ ~isScrolling /\ scrollPosition = 0 /\ leftAt = <<-176>> /\ screen = <<>>

\* C19: standalone variant, as long as the clock advances and loop() keeps
\* running: each of the modes 0, 1, 2 becomes active again and again, always
\* in the order 0 -> 1 -> 2 -> 0, and in every Scroll visit the animation is
\* started (isScrolling becomes true) before the mode is left.  Stated for the
\* iterations explored: a state with a full visit of iterations still ahead
\* is followed by the next mode.
C19_VisitTicks == (CyclesPerMode * DwellMs) \div TickDelay

C19_Ahead == variant = "simple" /\ ticks + C19_VisitTicks <= MaxSimpleTicks

C19_ModesRecurInOrder ==
    /\ [][(variant = "simple" /\ textMode' # textMode) =>
             (/\ textMode' = (textMode + 1) % 3
              /\ (textMode = 1 => isScrolling))]_vars
    /\ ((C19_Ahead /\ textMode = 0) ~> (textMode = 1))
    /\ ((C19_Ahead /\ textMode = 1) ~> (textMode = 2))
    /\ ((C19_Ahead /\ textMode = 2) ~> (textMode = 0))
    /\ ((C19_Ahead /\ textMode = 1 /\ ~isScrolling) ~> (textMode = 1 /\ isScrolling))

\* the animation started in the second Scroll visit, after 0 -> 1 -> 2 -> 0 -> 1
C19_Witness ==
    /\ SimpleTicked /\ "start" \in ev /\ textMode = 1 /\ isScrolling
    /\ modeGap[3] = 0 /\ leftAt # <<>> /\ lastShown[2] = 3

=============================================================================
